---- MODULE Spec2Model ----
(***************************************************************************)
(* go-archiguard: layer classification and dependency-rule evaluation.     *)
(*                                                                         *)
(* A Go string is modelled as a sequence of one-character strings, so that *)
(* strings.HasPrefix, strings.Split and the glob matcher work on           *)
(* characters exactly as the program does.                                 *)
(***************************************************************************)
EXTENDS Naturals, Integers, Sequences, FiniteSets, Bags, TLC

\* ------------------------------------------------------------------ bounds
MaxImports == 1
MaxRules == 2

\* ----------------------------------------------------------------- strings
s_dot == <<".">>
s_star == <<"*">>
s_m == <<"m">>
s_mx == <<"m", "x">>
s_app == <<"a", "p", "p">>
s_domain == <<"d", "o", "m", "a", "i", "n">>
s_application == <<"a", "p", "p", "l", "i", "c", "a", "t", "i", "o", "n">>
s_vendor == <<"v", "e", "n", "d", "o", "r">>
s_lib == <<"l", "i", "b">>
s_fmt == <<"f", "m", "t">>
s_gomod == <<"g", "o", ".", "m", "o", "d">>
s_maingo == <<"m", "a", "i", "n", ".", "g", "o">>
s_dgo == <<"d", ".", "g", "o">>
s_ego == <<"e", ".", "g", "o">>
s_ago == <<"a", ".", "g", "o">>
s_lgo == <<"l", ".", "g", "o">>
s_dotgo == <<".", "g", "o">>

layerRoot == <<"r", "o", "o", "t">>
layerUnknown == <<"u", "n", "k", "n", "o", "w", "n">>

\* fmt.Sprintf("%s/%s", a, b)
Join(a, b) == a \o <<"/">> \o b

\* strings.HasPrefix
HasPrefix(s, prefix) ==
    /\ Len(prefix) <= Len(s)
    /\ SubSeq(s, 1, Len(prefix)) = prefix

\* strings.HasSuffix
HasSuffix(s, suffix) ==
    /\ Len(suffix) <= Len(s)
    /\ SubSeq(s, Len(s) - Len(suffix) + 1, Len(s)) = suffix

\* strings.Contains(s, c) for a one-character c
Contains(s, c) == \E i \in 1..Len(s) : s[i] = c

\* strings.Split(s, c)[0]: the part of s before the first c (all of s when
\* s holds no c)
RECURSIVE SplitHead(_, _)
SplitHead(s, c) ==
    IF s = <<>> THEN <<>>
    ELSE IF Head(s) = c THEN <<>>
    ELSE <<Head(s)>> \o SplitHead(Tail(s), c)

\* filepath.Dir of a slash path relative to the scan root
RECURSIVE Dir(_)
Dir(path) ==
    IF ~Contains(path, "/") THEN s_dot
    ELSE IF path[Len(path)] = "/" THEN SubSeq(path, 1, Len(path) - 1)
    ELSE Dir(SubSeq(path, 1, Len(path) - 1))

\* filepath.Rel(base, target) for a target at or below base, slash form
Rel(base, target) ==
    IF base = target THEN s_dot
    ELSE IF base = s_dot THEN target
    ELSE SubSeq(target, Len(base) + 2, Len(target))

\* ------------------------------------------------- doublestar.Match (glob)
\* what is left of the pattern when the name is used up
isZeroLengthPattern(pattern) ==
    pattern \in { <<>>, <<"*">>, <<"*", "*">>, <<"/", "*", "*">>,
                  <<"*", "*", "/">>, <<"/", "*", "*", "/">> }

NoSeparator(s, j) == \A i \in 1..j : s[i] # "/"

\* patterns of literals, `*` and `**`; startOfSegment as in the library:
\* `**` is a doublestar only as a whole path segment, else a single star
RECURSIVE doMatch(_, _, _)
doMatch(pattern, name, startOfSegment) ==
    IF name = <<>> THEN isZeroLengthPattern(pattern)
    ELSE IF pattern = <<>> THEN FALSE
    ELSE IF pattern[1] = "*" THEN
        LET two == Len(pattern) >= 2 /\ pattern[2] = "*" IN
        IF two /\ startOfSegment /\ Len(pattern) = 2 THEN TRUE
        ELSE IF two /\ startOfSegment /\ pattern[3] = "/" THEN
            LET rest == SubSeq(pattern, 4, Len(pattern)) IN
            \/ doMatch(rest, name, TRUE)
            \/ \E i \in 1..Len(name) :
                   /\ name[i] = "/"
                   /\ doMatch(rest, SubSeq(name, i + 1, Len(name)), TRUE)
        ELSE
            LET k == IF two THEN 3 ELSE 2
                rest == SubSeq(pattern, k, Len(pattern)) IN
            \E j \in 0..Len(name) :
                /\ NoSeparator(name, j)
                /\ doMatch(rest, SubSeq(name, j + 1, Len(name)), FALSE)
    ELSE
        /\ pattern[1] = name[1]
        /\ doMatch(Tail(pattern), Tail(name), pattern[1] = "/")

Match(pattern, name) == doMatch(pattern, name, TRUE)

\* ------------------------------------------------------------ matchPattern
\* matchPattern as a glob would have it: the text after the last `*` has to
\* end the path
matchPatternGlob(path, pattern) ==
    IF Contains(pattern, "*")
    THEN /\ HasPrefix(path, SplitHead(pattern, "*"))
         /\ \E k \in 1..Len(pattern) :
                /\ pattern[k] = "*"
                /\ \A j \in (k + 1)..Len(pattern) : pattern[j] # "*"
                /\ HasSuffix(path, SubSeq(pattern, k + 1, Len(pattern)))
    ELSE path = pattern

matchPattern(path, pattern) ==
    IF Contains(pattern, "*")
    THEN HasPrefix(path, SplitHead(pattern, "*"))
    ELSE path = pattern

\* ------------------------------------------------------------------- state
VARIABLES
    fs,        \* the tree under --project-root: its entries in the lexical
               \* order filepath.Walk visits them
    config,    \* *Config as loaded by loadConfig
    pc,        \* position in main: "walk", "analyze", "check", "done", "fatal"
    walkIdx,   \* index in fs of the entry filepath.Walk visits next
    packages,  \* map[string]*PackageInfo
    out        \* the lines printed to stdout, as a bag (map iteration
               \* leaves their order open)

vars == <<fs, config, pc, walkIdx, packages, out>>

\* ------------------------------------------------------------- input space
DirEntry(path) ==
    [path |-> path, isDir |-> TRUE, module |-> <<>>, imports |-> <<>>]
GoFile(path, imports) ==
    [path |-> path, isDir |-> FALSE, module |-> <<>>, imports |-> imports]
GoMod(path, module) ==
    [path |-> path, isDir |-> FALSE, module |-> module, imports |-> <<>>]

\* module paths a go.mod below the scan root may declare (<<>>: no go.mod)
NestedModules == { <<>>, s_domain, Join(s_m, s_app) }

\* import strings a source file may hold
ImportUniverse ==
    { Join(s_m, s_app), s_m, s_mx,
      Join(Join(s_m, s_vendor), s_lib), Join(s_domain, s_lib) }

RECURSIVE SeqsUpTo(_, _)
SeqsUpTo(S, n) ==
    IF n = 0 THEN { <<>> }
    ELSE LET shorter == SeqsUpTo(S, n - 1) IN
         shorter \cup { Append(q, x) : q \in { r \in shorter : Len(r) = n - 1 },
                                       x \in S }

\* module `m` at the scan root with packages ., app and domain, and a
\* directory vendor (optionally a module of its own) with package vendor/lib
Tree(nested, imports) ==
    << DirEntry(s_dot),
       DirEntry(s_app),
       GoFile(Join(s_app, s_ago), <<>>),
       DirEntry(s_domain),
       GoFile(Join(s_domain, s_dgo), imports),
       GoFile(Join(s_domain, s_ego), <<s_fmt>>),
       GoMod(s_gomod, s_m),
       GoFile(s_maingo, <<>>),
       DirEntry(s_vendor) >>
    \o (IF nested = <<>> THEN <<>>
        ELSE << GoMod(Join(s_vendor, s_gomod), nested) >>)
    \o << DirEntry(Join(s_vendor, s_lib)),
          GoFile(Join(Join(s_vendor, s_lib), s_lgo), <<>>) >>

g_domain == <<"*", "*", "/">> \o s_domain \o <<"/", "*", "*">>
g_app == <<"*", "*", "/">> \o s_app \o <<"/", "*", "*">>
g_vendor == <<"*", "*", "/">> \o s_vendor

LayerConfigs ==
    { (s_domain :> <<g_domain>>) @@ (s_application :> <<g_app>>),
      (s_domain :> <<g_domain, g_app>>),
      (s_domain :> <<g_domain>>) @@ (s_application :> <<g_domain, g_app>>) }

Rule(from, to, allow) == [From |-> from, To |-> to, Allow |-> allow]

RulePool ==
    { Rule(s_domain, s_domain, TRUE),
      Rule(s_domain, s_star, FALSE),
      Rule(<<"d", "o", "*", "x">>, s_fmt, TRUE) }

ExcludeConfigs == { <<>>, <<g_vendor>> }

\* ------------------------------------------------------------------ Init
Init ==
    /\ fs \in { Tree(n, i) : n \in NestedModules,
                             i \in SeqsUpTo(ImportUniverse, MaxImports) }
    /\ config \in [Layers : LayerConfigs,
                   DependencyRules : SeqsUpTo(RulePool, MaxRules),
                   ExcludeDirs : ExcludeConfigs]
    /\ pc = "walk"
    /\ walkIdx = 1
    /\ packages = << >>
    /\ out = EmptyBag

\* ------------------------------------------------------ findNearestModule
JoinPath(dir, name) == IF dir = s_dot THEN name ELSE Join(dir, name)

HasGoMod(dir) ==
    \E i \in 1..Len(fs) :
        fs[i].path = JoinPath(dir, s_gomod) /\ fs[i].module # <<>>

ModuleOf(dir) ==
    (CHOOSE e \in { fs[i] : i \in 1..Len(fs) } :
         e.path = JoinPath(dir, s_gomod) /\ e.module # <<>>).module

\* walks up from the directory of the file to the nearest go.mod; above the
\* scan root nothing is known, which is the "go.mod not found" error
RECURSIVE NearestModule(_)
NearestModule(dir) ==
    IF HasGoMod(dir) THEN [ok |-> TRUE, modDir |-> dir, modPath |-> ModuleOf(dir)]
    ELSE IF dir = s_dot THEN [ok |-> FALSE, modDir |-> <<>>, modPath |-> <<>>]
    ELSE NearestModule(Dir(dir))

findNearestModule(filePath) == NearestModule(Dir(filePath))

\* ------------------------------------------------------ getLayerForPackage
Line(kind, pkg, layer, dep) ==
    [kind |-> kind, pkg |-> pkg, layer |-> layer, dep |-> dep]

Emit(bag, line) == bag (+) SetToBag({line})

\* the orders in which `range config.Layers` may visit the layers
Orders(S) ==
    { o \in [1..Cardinality(S) -> S] : \A a \in S : \E i \in DOMAIN o : o[i] = a }

LayerMatches(layers, layer, pkgSlashPath) ==
    \E i \in 1..Len(layers[layer]) : Match(layers[layer][i], pkgSlashPath)

\* FirstLayer giving up after the first layer visited
FirstLayerHeadOnly(layers, order, pkgSlashPath) ==
    IF order = <<>> THEN <<>>
    ELSE IF LayerMatches(layers, Head(order), pkgSlashPath) THEN Head(order)
    ELSE <<>>

\* the first layer, in the order visited, one of whose paths matches
RECURSIVE FirstLayer(_, _, _)
FirstLayer(layers, order, pkgSlashPath) ==
    IF order = <<>> THEN <<>>
    ELSE IF LayerMatches(layers, Head(order), pkgSlashPath) THEN Head(order)
    ELSE FirstLayer(layers, Tail(order), pkgSlashPath)

\* getLayerForPackage matching the path relative to the module root
getLayerForPackageRel(pkgPath, relPath, layers, order) ==
    LET found == FirstLayer(layers, order, relPath) IN
    IF found # <<>>
    THEN [layer |-> found,
          line |-> {Line("debug in layer", pkgPath, found, <<>>)}]
    ELSE IF relPath = s_dot
    THEN [layer |-> layerRoot, line |-> {}]
    ELSE [layer |-> layerUnknown,
          line |-> {Line("warn in layer UNKNOWN", pkgPath, <<>>, <<>>)}]

\* getLayerForPackage taking the empty string for the module root
getLayerForPackageEmptyRel(pkgPath, relPath, layers, order) ==
    LET found == FirstLayer(layers, order, pkgPath) IN
    IF found # <<>>
    THEN [layer |-> found,
          line |-> {Line("debug in layer", pkgPath, found, <<>>)}]
    ELSE IF relPath = <<>>
    THEN [layer |-> layerRoot, line |-> {}]
    ELSE [layer |-> layerUnknown,
          line |-> {Line("warn in layer UNKNOWN", pkgPath, <<>>, <<>>)}]

\* the layer returned and the line printed, for one iteration order
getLayerForPackage(pkgPath, relPath, layers, order) ==
    LET found == FirstLayer(layers, order, pkgPath) IN
    IF found # <<>>
    THEN [layer |-> found,
          line |-> {Line("debug in layer", pkgPath, found, <<>>)}]
    ELSE IF relPath = s_dot
    THEN [layer |-> layerRoot, line |-> {}]
    ELSE [layer |-> layerUnknown,
          line |-> {Line("warn in layer UNKNOWN", pkgPath, <<>>, <<>>)}]

\* ------------------------------------------------------------ parseProject
\* PkgPath registering the unit at the module root under the bare prefix
PkgPathBareRoot(modPrefix, relPath) ==
    IF relPath = s_dot THEN modPrefix ELSE Join(modPrefix, relPath)

\* pkgPath := fmt.Sprintf("%s/%s", modPrefix, relPath)
PkgPath(modPrefix, relPath) == Join(modPrefix, relPath)

Under(dir, path) == dir = s_dot \/ HasPrefix(path, dir \o <<"/">>)

\* AfterSubtree for a callback that returns nil where it should SkipDir
AfterSubtreeNone(dir, i) == i

\* the index of the first entry after position i that is not below dir
RECURSIVE AfterSubtree(_, _)
AfterSubtree(dir, i) ==
    IF i > Len(fs) THEN i
    ELSE IF Under(dir, fs[i].path) THEN AfterSubtree(dir, i + 1)
    ELSE i

Excluded(relPath) ==
    \E k \in 1..Len(config.ExcludeDirs) : Match(config.ExcludeDirs[k], relPath)

AfterWalk(next) == IF next > Len(fs) THEN "analyze" ELSE "walk"

\* the callback of filepath.Walk on a directory
WalkDir ==
    /\ pc = "walk"
    /\ walkIdx <= Len(fs)
    /\ fs[walkIdx].isDir
    /\ LET relPath == Rel(s_dot, fs[walkIdx].path)
           next == IF Excluded(relPath)
                   THEN AfterSubtree(fs[walkIdx].path, walkIdx + 1)
                   ELSE walkIdx + 1 IN
       /\ walkIdx' = next
       /\ pc' = AfterWalk(next)
    /\ UNCHANGED <<fs, config, packages, out>>

\* the callback on a file that is not a .go file
WalkOther ==
    /\ pc = "walk"
    /\ walkIdx <= Len(fs)
    /\ ~fs[walkIdx].isDir
    /\ ~HasSuffix(fs[walkIdx].path, s_dotgo)
    /\ walkIdx' = walkIdx + 1
    /\ pc' = AfterWalk(walkIdx + 1)
    /\ UNCHANGED <<fs, config, packages, out>>

\* the callback on a .go file
WalkGoFile ==
    /\ pc = "walk"
    /\ walkIdx <= Len(fs)
    /\ ~fs[walkIdx].isDir
    /\ HasSuffix(fs[walkIdx].path, s_dotgo)
    /\ LET path == fs[walkIdx].path
           mod == findNearestModule(path) IN
       IF ~mod.ok
       THEN /\ pc' = "fatal"
            /\ UNCHANGED <<walkIdx, packages, out>>
       ELSE LET relPath == Rel(mod.modDir, Dir(path))
                pkgPath == PkgPath(mod.modPath, relPath) IN
            /\ walkIdx' = walkIdx + 1
            /\ pc' = AfterWalk(walkIdx + 1)
            /\ IF pkgPath \in DOMAIN packages
               THEN /\ packages' = [packages EXCEPT ![pkgPath].Imports =
                                        @ \o fs[walkIdx].imports]
                    /\ out' = out
               ELSE \E order \in Orders(DOMAIN config.Layers) :
                      LET r == getLayerForPackage(pkgPath, relPath,
                                                  config.Layers, order) IN
                      /\ packages' = packages @@ (pkgPath :>
                             [Path |-> pkgPath,
                              Module |-> mod.modPath,
                              Layer |-> r.layer,
                              Imports |-> fs[walkIdx].imports,
                              LayerDeps |-> {},
                              ExternalDeps |-> {}])
                      /\ out' = out (+) SetToBag(r.line)
    /\ UNCHANGED <<fs, config>>

\* --------------------------------------------------------- analyzePackages
\* the module prefixes of the units found
ModulePrefixes(pkgs) == { pkgs[p].Module : p \in DOMAIN pkgs }

IsExternal(imp, modulePrefixes) ==
    ~\E module \in modulePrefixes : HasPrefix(imp, module)

\* AnalyzeImports testing the import against the module of the importing
\* unit alone
RECURSIVE AnalyzeImportsOwnModule(_, _, _, _)
AnalyzeImportsOwnModule(pkgs, pkg, imports, acc) ==
    IF imports = <<>> THEN acc
    ELSE LET imp == Head(imports)
             next ==
                 IF IsExternal(imp, {pkg.Module})
                 THEN [acc EXCEPT !.ExternalDeps = @ \cup {imp}]
                 ELSE IF imp \in DOMAIN pkgs
                 THEN [acc EXCEPT
                         !.LayerDeps = @ \cup {pkgs[imp].Layer},
                         !.out = IF pkgs[imp].Layer = layerUnknown
                                 THEN Emit(@, Line("warn imports UNKNOWN",
                                               pkg.Path, <<>>, pkgs[imp].Path))
                                 ELSE @]
                 ELSE acc IN
         AnalyzeImportsOwnModule(pkgs, pkg, Tail(imports), next)

\* AnalyzeImports recording as external an internal import it does not find
RECURSIVE AnalyzeImportsUnfoundExternal(_, _, _, _)
AnalyzeImportsUnfoundExternal(pkgs, pkg, imports, acc) ==
    IF imports = <<>> THEN acc
    ELSE LET imp == Head(imports)
             next ==
                 IF IsExternal(imp, ModulePrefixes(pkgs))
                 THEN [acc EXCEPT !.ExternalDeps = @ \cup {imp}]
                 ELSE IF imp \in DOMAIN pkgs
                 THEN [acc EXCEPT
                         !.LayerDeps = @ \cup {pkgs[imp].Layer},
                         !.out = IF pkgs[imp].Layer = layerUnknown
                                 THEN Emit(@, Line("warn imports UNKNOWN",
                                               pkg.Path, <<>>, pkgs[imp].Path))
                                 ELSE @]
                 ELSE [acc EXCEPT !.ExternalDeps = @ \cup {imp}] IN
         AnalyzeImportsUnfoundExternal(pkgs, pkg, Tail(imports), next)

\* the loop over pkg.Imports: acc holds the two sets of the unit and the
\* lines printed so far
RECURSIVE AnalyzeImports(_, _, _, _)
AnalyzeImports(pkgs, pkg, imports, acc) ==
    IF imports = <<>> THEN acc
    ELSE LET imp == Head(imports)
             next ==
                 IF IsExternal(imp, ModulePrefixes(pkgs))
                 THEN [acc EXCEPT !.ExternalDeps = @ \cup {imp}]
                 ELSE IF imp \in DOMAIN pkgs
                 THEN [acc EXCEPT
                         !.LayerDeps = @ \cup {pkgs[imp].Layer},
                         !.out = IF pkgs[imp].Layer = layerUnknown
                                 THEN Emit(@, Line("warn imports UNKNOWN",
                                               pkg.Path, <<>>, pkgs[imp].Path))
                                 ELSE @]
                 ELSE acc IN
         AnalyzeImports(pkgs, pkg, Tail(imports), next)

AnalyzePkg(pkgs, pkg) ==
    AnalyzeImports(pkgs, pkg, pkg.Imports,
        [LayerDeps |-> pkg.LayerDeps, ExternalDeps |-> pkg.ExternalDeps,
         out |-> EmptyBag])

RECURSIVE AnalyzeOut(_, _)
AnalyzeOut(pkgs, todo) ==
    IF todo = {} THEN EmptyBag
    ELSE LET p == CHOOSE x \in todo : TRUE IN
         AnalyzePkg(pkgs, pkgs[p]).out (+) AnalyzeOut(pkgs, todo \ {p})

analyzePackages ==
    /\ pc = "analyze"
    /\ packages' = [p \in DOMAIN packages |->
                      LET r == AnalyzePkg(packages, packages[p]) IN
                      [packages[p] EXCEPT !.LayerDeps = r.LayerDeps,
                                          !.ExternalDeps = r.ExternalDeps]]
    /\ out' = out (+) AnalyzeOut(packages, DOMAIN packages)
    /\ pc' = "check"
    /\ UNCHANGED <<fs, config, walkIdx>>

\* -------------------------------------------------------- checkDependencies
\* RuleScan without the break: every matching rule gives its verdict
RECURSIVE RuleScanNoBreak(_, _, _, _)
RuleScanNoBreak(rules, pkg, candidate, kind) ==
    IF rules = <<>> THEN EmptyBag
    ELSE LET rule == Head(rules) IN
         (IF /\ matchPattern(pkg.Layer, rule.From)
             /\ matchPattern(candidate, rule.To)
             /\ ~rule.Allow
          THEN SetToBag({Line(kind, pkg.Path, pkg.Layer, candidate)})
          ELSE EmptyBag)
         (+) RuleScanNoBreak(Tail(rules), pkg, candidate, kind)

\* RuleScan denying the edge that no rule matches
RECURSIVE RuleScanDefaultDeny(_, _, _, _)
RuleScanDefaultDeny(rules, pkg, candidate, kind) ==
    IF rules = <<>>
    THEN SetToBag({Line(kind, pkg.Path, pkg.Layer, candidate)})
    ELSE LET rule == Head(rules) IN
         IF matchPattern(pkg.Layer, rule.From) /\ matchPattern(candidate, rule.To)
         THEN IF ~rule.Allow
              THEN SetToBag({Line(kind, pkg.Path, pkg.Layer, candidate)})
              ELSE EmptyBag
         ELSE RuleScanDefaultDeny(Tail(rules), pkg, candidate, kind)

\* the loop over config.DependencyRules for one edge, left at the first
\* rule whose From and To both match
RECURSIVE RuleScan(_, _, _, _)
RuleScan(rules, pkg, candidate, kind) ==
    IF rules = <<>> THEN EmptyBag
    ELSE LET rule == Head(rules) IN
         IF matchPattern(pkg.Layer, rule.From) /\ matchPattern(candidate, rule.To)
         THEN IF ~rule.Allow
              THEN SetToBag({Line(kind, pkg.Path, pkg.Layer, candidate)})
              ELSE EmptyBag
         ELSE RuleScan(Tail(rules), pkg, candidate, kind)

RECURSIVE CheckLayerDeps(_, _, _)
CheckLayerDeps(rules, pkg, deps) ==
    IF deps = {} THEN EmptyBag
    ELSE LET layer == CHOOSE x \in deps : TRUE IN
         RuleScan(rules, pkg, layer, "LAYER VIOLATION")
         (+) SetToBag({Line("debug layer deps", pkg.Path, pkg.Layer, layer)})
         (+) CheckLayerDeps(rules, pkg, deps \ {layer})

RECURSIVE CheckExternalDeps(_, _, _)
CheckExternalDeps(rules, pkg, deps) ==
    IF deps = {} THEN EmptyBag
    ELSE LET extPkg == CHOOSE x \in deps : TRUE IN
         RuleScan(rules, pkg, extPkg, "EXTERNAL VIOLATION")
         (+) CheckExternalDeps(rules, pkg, deps \ {extPkg})

RECURSIVE CheckOut(_, _, _)
CheckOut(rules, pkgs, todo) ==
    IF todo = {} THEN EmptyBag
    ELSE LET p == CHOOSE x \in todo : TRUE IN
         CheckLayerDeps(rules, pkgs[p], pkgs[p].LayerDeps)
         (+) CheckExternalDeps(rules, pkgs[p], pkgs[p].ExternalDeps)
         (+) CheckOut(rules, pkgs, todo \ {p})

checkDependencies ==
    /\ pc = "check"
    /\ out' = out (+) CheckOut(config.DependencyRules, packages, DOMAIN packages)
    /\ pc' = "done"
    /\ UNCHANGED <<fs, config, walkIdx, packages>>

\* ------------------------------------------------------------------- main
Next ==
    \/ WalkDir
    \/ WalkOther
    \/ WalkGoFile
    \/ analyzePackages
    \/ checkDependencies

Spec == Init /\ [][Next]_vars

\* =================================================================== claims
Units == { packages[p] : p \in DOMAIN packages }

Range(q) == { q[i] : i \in 1..Len(q) }

Count(line) == CopiesIn(line, out)

Analyzed == pc \in {"check", "done"}

\* the lowest index of a rule whose From matches the layer and whose To
\* matches the candidate; 0 when there is none
Governing(layer, candidate) ==
    LET rules == config.DependencyRules
        hits == { i \in 1..Len(rules) :
                    /\ matchPattern(layer, rules[i].From)
                    /\ matchPattern(candidate, rules[i].To) } IN
    IF hits = {} THEN 0
    ELSE CHOOSE i \in hits : \A j \in hits : i <= j

Denied(layer, candidate) ==
    /\ Governing(layer, candidate) # 0
    /\ ~config.DependencyRules[Governing(layer, candidate)].Allow

\* C1: when the run is over, every layer edge and every external edge whose
\* governing rule (the first rule in declaration order matching both ends)
\* denies it has exactly one violation line, and every edge whose governing
\* rule allows it has none, whatever the later rules say.
C1_FirstMatchWins ==
    pc = "done" =>
        \A U \in Units :
            /\ \A D \in U.LayerDeps :
                   Governing(U.Layer, D) # 0 =>
                       Count(Line("LAYER VIOLATION", U.Path, U.Layer, D))
                           = IF Denied(U.Layer, D) THEN 1 ELSE 0
            /\ \A D \in U.ExternalDeps :
                   Governing(U.Layer, D) # 0 =>
                       Count(Line("EXTERNAL VIOLATION", U.Path, U.Layer, D))
                           = IF Denied(U.Layer, D) THEN 1 ELSE 0

\* rules [(domain,domain,allow),(domain,*,deny)]: a domain -> application
\* edge governed by the second rule has its one LAYER VIOLATION, and the
\* external edge to fmt its one EXTERNAL VIOLATION
C1_Witness ==
    /\ pc = "done"
    /\ config.DependencyRules =
           << Rule(s_domain, s_domain, TRUE), Rule(s_domain, s_star, FALSE) >>
    /\ \E U \in Units :
           /\ U.Layer = s_domain
           /\ s_application \in U.LayerDeps
           /\ Count(Line("LAYER VIOLATION", U.Path, s_domain, s_application)) = 1
           /\ Count(Line("EXTERNAL VIOLATION", U.Path, s_domain, s_fmt)) = 1

\* C2: an edge that no rule matches has neither a LAYER VIOLATION nor an
\* EXTERNAL VIOLATION line, and the run goes on: it ends, and the layer
\* edge still has its trace line.
C2_NoRuleNoViolation ==
    pc = "done" =>
        \A U \in Units :
            \A D \in U.LayerDeps \cup U.ExternalDeps :
                Governing(U.Layer, D) = 0 =>
                    /\ Count(Line("LAYER VIOLATION", U.Path, U.Layer, D)) = 0
                    /\ Count(Line("EXTERNAL VIOLATION", U.Path, U.Layer, D)) = 0
                    /\ D \in U.LayerDeps =>
                           Count(Line("debug layer deps", U.Path, U.Layer, D)) = 1

\* a rule table that is not empty, a layer edge and an external edge that
\* none of its rules matches, and the run over
C2_Witness ==
    /\ pc = "done"
    /\ config.DependencyRules # <<>>
    /\ \E U \in Units :
           /\ \E D \in U.LayerDeps : Governing(U.Layer, D) = 0
           /\ \E D \in U.ExternalDeps : Governing(U.Layer, D) = 0

\* the imports of a unit that start with no module prefix of a unit found,
\* and those of the others that name a unit found
ExternalImports(U) ==
    { imp \in Range(U.Imports) : IsExternal(imp, ModulePrefixes(packages)) }

FoundImports(U) ==
    { imp \in Range(U.Imports) \ ExternalImports(U) : imp \in DOMAIN packages }

DroppedImports(U) ==
    (Range(U.Imports) \ ExternalImports(U)) \ FoundImports(U)

\* C3: after analyzePackages every import that starts with no module prefix
\* is in the external set of its unit and the external set holds nothing
\* else; the layer set holds only the layers of the units that the other
\* imports name, so no import has gone to both sets.
C3_ExternalNeverLayer ==
    Analyzed =>
        \A U \in Units :
            /\ \A imp \in ExternalImports(U) :
                   /\ imp \in U.ExternalDeps
                   /\ imp \notin DOMAIN packages
            /\ U.ExternalDeps \subseteq ExternalImports(U)
            /\ U.LayerDeps \subseteq
                   { packages[imp].Layer : imp \in FoundImports(U) }

\* a unit of two modules found, importing fmt (external) and a unit of the
\* other module (internal, found): one import in each set
C3_Witness ==
    /\ Analyzed
    /\ \E U \in Units :
           /\ s_fmt \in U.ExternalDeps
           /\ U.LayerDeps # {}
           /\ \E imp \in FoundImports(U) : ~HasPrefix(imp, U.Module)

\* C4: an import that starts with a module prefix and names no unit found
\* is in neither set of its unit, leaves the layer set to the imports that
\* do name a unit, and appears in no line: no warning, no trace, no
\* violation.
C4_UnresolvedInternalDropped ==
    Analyzed =>
        \A U \in Units :
            \A imp \in DroppedImports(U) :
                /\ imp \notin U.ExternalDeps
                /\ U.LayerDeps = { packages[f].Layer : f \in FoundImports(U) }
                /\ \A line \in BagToSet(out) :
                       ~(line.pkg = U.Path /\ line.dep = imp)

\* the run over, a deny-all rule in force, and a unit importing `mx`, which
\* starts with the module prefix `m` as a string and names no unit
C4_Witness ==
    /\ pc = "done"
    /\ Rule(s_domain, s_star, FALSE) \in Range(config.DependencyRules)
    /\ \E U \in Units :
           /\ U.Layer = s_domain
           /\ s_mx \in DroppedImports(U)
           /\ U.LayerDeps = {}

\* the index of the first `*` of a pattern that has one
FirstStar(pattern) ==
    CHOOSE i \in 1..Len(pattern) :
        pattern[i] = "*" /\ \A j \in 1..(i - 1) : pattern[j] # "*"

PrefixOrExact(candidate, pattern) ==
    IF \A i \in 1..Len(pattern) : pattern[i] # "*"
    THEN candidate = pattern
    ELSE /\ Len(candidate) >= FirstStar(pattern) - 1
         /\ \A i \in 1..(FirstStar(pattern) - 1) : candidate[i] = pattern[i]

RulePatterns ==
    UNION { { r.From, r.To } : r \in Range(config.DependencyRules) }

\* the strings the rules are tried on: the layers of the units, their layer
\* edges and their external edges
RuleCandidates ==
    UNION { {U.Layer} \cup U.LayerDeps \cup U.ExternalDeps : U \in Units }

\* C5: on every pattern of the rule table and every string the rules are
\* tried on, matchPattern is equality when the pattern has no `*`, and
\* otherwise the test that the candidate starts with the part of the
\* pattern before its first `*`; a pattern without `*` matches itself.
C5_PrefixOrExact ==
    \A pattern \in RulePatterns :
        /\ \A candidate \in RuleCandidates \cup RulePatterns :
               matchPattern(candidate, pattern) = PrefixOrExact(candidate, pattern)
        /\ ~Contains(pattern, "*") => matchPattern(pattern, pattern)

\* the rule (do*x, fmt, allow) placed first governs the edge domain -> fmt:
\* `do*x` matches `domain` by its prefix `do`, the `x` after the star being
\* ignored, so the deny-all rule behind it prints nothing for fmt
C5_Witness ==
    /\ pc = "done"
    /\ config.DependencyRules =
           << Rule(<<"d", "o", "*", "x">>, s_fmt, TRUE),
              Rule(s_domain, s_star, FALSE) >>
    /\ \E U \in Units :
           /\ U.Layer = s_domain
           /\ s_fmt \in U.ExternalDeps
           /\ Count(Line("EXTERNAL VIOLATION", U.Path, s_domain, s_fmt)) = 0
           /\ \E D \in U.LayerDeps :
                  Count(Line("LAYER VIOLATION", U.Path, s_domain, D)) = 1

\* the path of a unit relative to the root of its module
RelOf(U) == SubSeq(U.Path, Len(U.Module) + 2, Len(U.Path))

\* the declared layers one of whose patterns matches the string
MatchingLayers(str) ==
    { layer \in DOMAIN config.Layers : LayerMatches(config.Layers, layer, str) }

\* C6, as claimed: a unit is given a declared layer only if a pattern of
\* that layer matches its path relative to the module root, so that units
\* with the same relative path are classified alike.
C6_ClassifiedByRelativePath ==
    /\ \A U \in Units :
           U.Layer \in DOMAIN config.Layers => U.Layer \in MatchingLayers(RelOf(U))
    /\ \A U, V \in Units :
           (RelOf(U) = RelOf(V) /\ MatchingLayers(RelOf(U)) = {})
               => U.Layer = V.Layer

\* C6, amended: a unit is given a declared layer exactly when a pattern of
\* a declared layer matches its identity <module prefix>/<relative path>,
\* and the layer given is one whose pattern matches the identity.
C6_ClassifiedByIdentity ==
    \A U \in Units :
        /\ U.Layer \in DOMAIN config.Layers <=> MatchingLayers(U.Path) # {}
        /\ U.Layer \in DOMAIN config.Layers => U.Layer \in MatchingLayers(U.Path)

\* the unit vendor/lib of the module `domain`: its relative path `lib`
\* matches no pattern, its identity `domain/lib` matches **/domain/**
C6_Witness ==
    \E U \in Units :
        /\ U.Module = s_domain
        /\ MatchingLayers(RelOf(U)) = {}
        /\ U.Layer = s_domain

\* C7: a unit whose identity no pattern of a declared layer matches is
\* `root` when its relative path is the module root and `unknown` otherwise;
\* the units classified `unknown`, and no others, have one warning line
\* each; the run does not abort.
C7_Fallback ==
    /\ pc # "fatal"
    /\ \A U \in Units :
           /\ MatchingLayers(U.Path) = {} =>
                  U.Layer = IF RelOf(U) = s_dot THEN layerRoot ELSE layerUnknown
           /\ Count(Line("warn in layer UNKNOWN", U.Path, <<>>, <<>>))
                  = IF U.Layer = layerUnknown THEN 1 ELSE 0

\* the root unit `m/.` classified root and the unit `m/vendor/lib`
\* classified unknown, the walk over
C7_Witness ==
    /\ pc = "done"
    /\ Join(s_m, s_dot) \in DOMAIN packages
    /\ packages[Join(s_m, s_dot)].Layer = layerRoot
    /\ \E U \in Units :
           /\ U.Layer = layerUnknown
           /\ RelOf(U) # s_dot
           /\ Count(Line("warn in layer UNKNOWN", U.Path, <<>>, <<>>)) = 1

\* C8: the layer recorded for a unit whose identity matches patterns of at
\* most one declared layer is the layer getLayerForPackage returns under
\* every order of iteration over the layers map.
C8_OrderIndependent ==
    \A U \in Units :
        Cardinality(MatchingLayers(U.Path)) <= 1 =>
            \A order \in Orders(DOMAIN config.Layers) :
                getLayerForPackage(U.Path, RelOf(U), config.Layers, order).layer
                    = U.Layer

\* two layers declared, hence two orders, and units classified that match
\* one layer and none
C8_Witness ==
    /\ Cardinality(DOMAIN config.Layers) = 2
    /\ \E U \in Units : MatchingLayers(U.Path) = {U.Layer}
    /\ \E U \in Units : MatchingLayers(U.Path) = {} /\ U.Layer = layerUnknown

\* the directories of the tree, and those that source files lie in
Dirs == { fs[i].path : i \in { k \in 1..Len(fs) : fs[k].isDir } }

HasGoFiles(dir) ==
    \E i \in 1..Len(fs) :
        /\ ~fs[i].isDir
        /\ HasSuffix(fs[i].path, s_dotgo)
        /\ Dir(fs[i].path) = dir

\* the directories that match an exclude pattern, with all below them
PrunedDirs ==
    { d \in Dirs : \E r \in Dirs :
                      /\ Excluded(Rel(s_dot, r))
                      /\ (d = r \/ Under(r, d)) }

\* the identity the unit of a directory has, or would have had
IdentityOf(dir) ==
    LET mod == NearestModule(dir) IN
    PkgPath(mod.modPath, Rel(mod.modDir, dir))

PrunedUnits == { IdentityOf(d) : d \in { x \in PrunedDirs : HasGoFiles(x) } }

SharesModulePrefix(imp) == ~IsExternal(imp, ModulePrefixes(packages))

\* C9, as claimed: the unit of a pruned directory is not in the table, no
\* line names it, and every import of it is internal and not found.
C9_PrunedAlwaysInternal ==
    \A I \in PrunedUnits :
        /\ I \notin DOMAIN packages
        /\ \A line \in BagToSet(out) : line.pkg # I /\ line.dep # I
        /\ Analyzed =>
               \A U \in Units :
                   I \in Range(U.Imports) => I \in DroppedImports(U)

\* C9, amended: the unit of a pruned directory is not in the table and no
\* line names it as a unit; an import of it is internal and not found when
\* it starts with the module prefix of a unit found, and is an external
\* dependency of the importer otherwise, the only way its name gets into a
\* line (an EXTERNAL VIOLATION).
C9_PrunedNeverAUnit ==
    \A I \in PrunedUnits :
        /\ I \notin DOMAIN packages
        /\ \A line \in BagToSet(out) :
               /\ line.pkg # I
               /\ line.dep = I =>
                      /\ line.kind = "EXTERNAL VIOLATION"
                      /\ ~SharesModulePrefix(I)
        /\ Analyzed =>
               \A U \in Units :
                   I \in Range(U.Imports) =>
                       IF SharesModulePrefix(I)
                       THEN I \in DroppedImports(U) /\ I \notin U.ExternalDeps
                       ELSE I \in U.ExternalDeps

\* vendor pruned while it holds the source file of m/vendor/lib, a unit of
\* domain importing m/vendor/lib under a deny-all rule, the run over
C9_Witness ==
    /\ pc = "done"
    /\ Join(Join(s_m, s_vendor), s_lib) \in PrunedUnits
    /\ Rule(s_domain, s_star, FALSE) \in Range(config.DependencyRules)
    /\ \E U \in Units :
           /\ U.Layer = s_domain
           /\ Join(Join(s_m, s_vendor), s_lib) \in DroppedImports(U)

\* the imports of a unit that are the module prefix of a unit found
PrefixImports(U) == Range(U.Imports) \cap ModulePrefixes(packages)

\* C10, as claimed: an import equal to a module prefix is internal, is not
\* found in the table and is dropped.
C10_PrefixImportNeverFound ==
    Analyzed =>
        \A U \in Units :
            \A imp \in PrefixImports(U) :
                /\ imp \in DroppedImports(U)
                /\ imp \notin U.ExternalDeps
                /\ U.LayerDeps = { packages[f].Layer : f \in FoundImports(U) }

\* C10, amended: the unit at the root of a module is registered as
\* <prefix>/. ; an import equal to a module prefix is internal and never
\* resolves to a unit of that module: it names a unit only when a unit of
\* another module has the prefix as its identity, and is dropped otherwise,
\* adding no layer and no external dependency.
C10_PrefixImportNeverRootUnit ==
    /\ \A U \in Units : RelOf(U) = s_dot => U.Path = Join(U.Module, s_dot)
    /\ Analyzed =>
           \A U \in Units :
               \A imp \in PrefixImports(U) :
                   /\ SharesModulePrefix(imp)
                   /\ imp \notin U.ExternalDeps
                   /\ imp \in DOMAIN packages => packages[imp].Module # imp
                   /\ imp \notin DOMAIN packages => imp \in DroppedImports(U)
                   /\ U.LayerDeps = { packages[f].Layer : f \in FoundImports(U) }

\* the root unit m/. found and classified root, a unit of domain whose
\* imports of its module are `m` alone, a deny-all rule: no layer edge
C10_Witness ==
    /\ pc = "done"
    /\ Join(s_m, s_dot) \in DOMAIN packages
    /\ packages[Join(s_m, s_dot)].Layer = layerRoot
    /\ Rule(s_domain, s_star, FALSE) \in Range(config.DependencyRules)
    /\ \E U \in Units :
           /\ U.Layer = s_domain
           /\ s_m \in DroppedImports(U)
           /\ U.LayerDeps = {}
           /\ \A line \in BagToSet(out) :
                  ~(line.kind = "LAYER VIOLATION" /\ line.pkg = U.Path)

====
